---- MODULE Spec2Model ----
(***************************************************************************)
(* A model of the Fastboot USB gadget of hekate                            *)
(* (bdk/usb/usb_gadget_fastboot.c): the session structure, the response    *)
(* emission routine, the command interpreter, the RX and TX state machines *)
(* and the scheduling loop of usb_device_gadget_fastboot, together with    *)
(* the bulk transport and a host that answers every response.              *)
(*                                                                         *)
(* Buffers are sequences of byte values; index i of the model is index     *)
(* i - 1 of the C array.                                                   *)
(***************************************************************************)
EXTENDS Integers, Sequences, FiniteSets, TLC

\* ------------------------------------------------------------------ bounds

\* The capacity of the download staging region (RAM_DISK_SZ in the firmware),
\* scaled down so that a whole download fits in a run.
Capacity == 3

\* The largest single bulk read of the transport (USB_EP_BUFFER_MAX_SIZE in the
\* firmware), scaled down so that a download takes several chunks.
MaxChunk == 2

\* ------------------------------------------------------------- characters

\* The characters the protocol's texts use, each run in the order of its codes.
Digits == << "0", "1", "2", "3", "4", "5", "6", "7", "8", "9" >>

Uppers ==
  << "A", "B", "C", "D", "E", "F", "G", "H", "I", "J", "K", "L", "M",
     "N", "O", "P", "Q", "R", "S", "T", "U", "V", "W", "X", "Y", "Z" >>

Lowers ==
  << "a", "b", "c", "d", "e", "f", "g", "h", "i", "j", "k", "l", "m",
     "n", "o", "p", "q", "r", "s", "t", "u", "v", "w", "x", "y", "z" >>

IndexIn(run, c) == CHOOSE i \in 1..Len(run) : run[i] = c

\* The ASCII code of a character.
Ord(c) ==
  CASE c = " " -> 32
    [] c = "!" -> 33
    [] c = "-" -> 45
    [] c = "." -> 46
    [] c = ":" -> 58
    [] \E i \in 1..Len(Digits) : Digits[i] = c -> 47 + IndexIn(Digits, c)
    [] \E i \in 1..Len(Uppers) : Uppers[i] = c -> 64 + IndexIn(Uppers, c)
    [] \E i \in 1..Len(Lowers) : Lowers[i] = c -> 96 + IndexIn(Lowers, c)

\* The bytes of a text given as a tuple of characters.
B(s) == [i \in 1..Len(s) |-> Ord(s[i])]

Min(a, b) == IF a < b THEN a ELSE b

\* ---------------------------------------------------------- enumerations

\* enum fastboot_status: the order is the order of severity.
FASTBOOT_STATUS_NORMAL            == 0
FASTBOOT_STATUS_PROTOCOL_RESET    == 1
FASTBOOT_STATUS_INVALID_STATE     == 2
FASTBOOT_STATUS_USB_ERROR         == 3
FASTBOOT_STATUS_REBOOT_BOOTLOADER == 4

fastboot_status == FASTBOOT_STATUS_NORMAL..FASTBOOT_STATUS_REBOOT_BOOTLOADER

\* enum fastboot_rx_state and enum fastboot_tx_state; INVALID is the zero value.
fastboot_rx_state ==
  { "INVALID", "IDLE", "COMMAND", "DOWNLOAD",
    "WAITING_TX_FOR_PROCESS", "WAITING_TX_FOR_REBOOT_BOOTLOADER" }

fastboot_tx_state == { "INVALID", "IDLE", "SEND_RESPONSE" }

\* #define FASTBOOT_COMMAND_BUFFER_SIZE 64
FASTBOOT_COMMAND_BUFFER_SIZE == 64

\* static const u32 fastboot_download_capacity = RAM_DISK_SZ;
fastboot_download_capacity == Capacity

\* USB_EP_BUFFER_MAX_SIZE of the transport.
USB_EP_BUFFER_MAX_SIZE == MaxChunk

\* --------------------------------------------------------------- C strings

\* A zeroed char array of n bytes.
ZeroBuf(n) == [i \in 1..n |-> 0]

\* strlen: the number of bytes before the first NUL of buf, read from C index
\* `from`. The buffers of the session always hold a NUL.
strlen(buf, from) ==
  (CHOOSE k \in 0..(Len(buf) - from) :
      /\ buf[from + 1 + k] = 0
      /\ \A j \in 0..(k - 1) : buf[from + 1 + j] # 0)

\* The text of the C string at C index `from` of buf.
CStr(buf, from) == SubSeq(buf, from + 1, from + strlen(buf, from))

\* strncmp(buf, lit, n) == 0, for a literal lit that holds no NUL.
strncmp_eq(buf, lit, n) ==
  LET a == CStr(buf, 0)
  IN  SubSeq(a, 1, Min(Len(a), n)) = SubSeq(lit, 1, Min(Len(lit), n))

\* strcmp(buf + from, lit) == 0.
strcmp_eq(buf, from, lit) == CStr(buf, from) = lit

\* strncpy(dst + off, src, n): the first n bytes of the text src, padded with
\* NUL to n bytes; src is given without its terminator.
strncpy(dst, off, src, n) ==
  [i \in 1..Len(dst) |->
     IF i > off /\ i <= off + n
       THEN (IF i - off <= Len(src) THEN src[i - off] ELSE 0)
       ELSE dst[i]]

\* strcpy(dst, lit): the text and its terminator.
strcpy(dst, lit) ==
  [i \in 1..Len(dst) |->
     IF i <= Len(lit) THEN lit[i] ELSE IF i = Len(lit) + 1 THEN 0 ELSE dst[i]]

\* ------------------------------------------------------------------ texts

STR_getvar            == B(<< "g","e","t","v","a","r",":" >>)
STR_version           == B(<< "v","e","r","s","i","o","n" >>)
STR_product           == B(<< "p","r","o","d","u","c","t" >>)
STR_max_download_size ==
  B(<< "m","a","x","-","d","o","w","n","l","o","a","d","-","s","i","z","e" >>)
STR_reboot_bootloader ==
  B(<< "r","e","b","o","o","t","-","b","o","o","t","l","o","a","d","e","r" >>)
STR_download          == B(<< "d","o","w","n","l","o","a","d",":" >>)
STR_0_4               == B(<< "0",".","4" >>)
STR_Nyx               == B(<< "N","y","x" >>)
STR_unknown_variable  ==
  B(<< "u","n","k","n","o","w","n"," ","v","a","r","i","a","b","l","e" >>)
STR_failed_to_parse_size ==
  B(<< "f","a","i","l","e","d"," ","t","o"," ","p","a","r","s","e"," ","s","i","z","e" >>)
STR_download_size_too_large ==
  B(<< "d","o","w","n","l","o","a","d"," ","s","i","z","e"," ",
       "t","o","o"," ","l","a","r","g","e" >>)
STR_unknown_command   ==
  B(<< "u","n","k","n","o","w","n"," ","c","o","m","m","a","n","d",":"," " >>)
STR_got_it            == B(<< "g","o","t"," ","i","t","!" >>)

\* The 4-byte tag of enum fastboot_response_type.
ResponseTag(type) ==
  CASE type = "INFO" -> B(<< "I","N","F","O" >>)
    [] type = "FAIL" -> B(<< "F","A","I","L" >>)
    [] type = "OKAY" -> B(<< "O","K","A","Y" >>)
    [] type = "DATA" -> B(<< "D","A","T","A" >>)

\* ------------------------------------------------------------------ state

VARIABLES
  pc,        \* where usb_device_gadget_fastboot stands
  res,       \* its local `res`, the value it returns
  fastboot,  \* the usbd_gadget_fastboot_t of the run
  usb,       \* the bulk endpoints of the transport: the armed read and write
  host,      \* the host: whose turn it is and what it still has to send
  obs        \* what an observer of the run has seen (history, not program state)

vars == << pc, res, fastboot, usb, host, obs >>

\* memset(&fastboot, 0, sizeof(fastboot)); fastboot.status = FASTBOOT_STATUS_NORMAL;
fastboot_zeroed ==
  [ status           |-> FASTBOOT_STATUS_NORMAL,
    rx_state         |-> "INVALID",
    tx_state         |-> "INVALID",
    tight_turnaround |-> FALSE,
    rx_buffer        |-> ZeroBuf(FASTBOOT_COMMAND_BUFFER_SIZE + 1),
    rx_length        |-> 0,
    download_head    |-> 0,
    download_size    |-> 0,
    download_amount  |-> 0,
    tx_buffer        |-> ZeroBuf(FASTBOOT_COMMAND_BUFFER_SIZE + 1),
    tx_length        |-> 0 ]

\* No read armed, no write armed.
usb_idle ==
  [ rd |-> [kind |-> "none", off |-> 0, len |-> 0, stat |-> "idle", n |-> 0],
    wr |-> [stat |-> "idle", frame |-> << >>] ]

\* One call of a transport arming primitive, as the observer logs it.
OpRecord(op, kind, off, len, frame, ret, w) ==
  [ op       |-> op,
    ret      |-> ret,
    kind     |-> kind,
    off      |-> off,
    len      |-> len,
    frame    |-> frame,
    rx_state |-> w.fb.rx_state,
    tx_state |-> w.fb.tx_state,
    rd_kind  |-> w.usb.rd.kind,
    rd_busy  |-> w.usb.rd.stat = "active",
    wr_busy  |-> w.usb.wr.stat = "active" ]

obs_none ==
  [ ops        |-> << >>,   \* the arming calls of the current RX step, in order
    resp       |-> << >>,   \* the frames armed since the interpreter last ran
    line       |-> << >>,   \* the command line the interpreter last ran on
    ncmd       |-> 0,       \* 0 before any command, then 1
    interp     |-> FALSE,   \* the interpreter ran in the current RX step
    pre_rx     |-> "INVALID", \* rx_state and tx_state as the current RX step began
    pre_tx     |-> "INVALID",
    pre_wr     |-> "idle",  \* the write endpoint as the current RX step began
    pre_armed  |-> FALSE,   \* a write had been armed earlier in the tick
    stalled    |-> FALSE,   \* the gate held the current line back at least once
    rd_refused |-> FALSE,   \* the transport has refused to arm a read
    raises     |-> << >>,   \* the statuses fastboot_set_status was called with
    armed_tick |-> FALSE,   \* a write was armed in the current tick
    maint      |-> FALSE,   \* _system_maintenance ran in the current tick
    display    |-> FALSE,   \* the state display was refreshed in the last tick
    lost       |-> FALSE,   \* a command line arrived with no command read armed
    burst      |-> FALSE,   \* a line arrived before the device saw its response gone
    init_ok    |-> FALSE,   \* usb_device_init and usb_device_ep0_initialize succeeded
    reset      |-> FALSE,   \* a control transfer was pending at a control check
    suspended  |-> FALSE,   \* usb_device_get_suspended() returned true
    rx_steps   |-> 0,       \* the RX and TX steps of the current tick so far
    tx_steps   |-> 0,
    ub         |-> FALSE,   \* a write went past the end of an object
    msg_top    |-> 0,       \* the highest index of `message` written for an unknown command
    calls      |-> << >> ]  \* usbd_end and reload_nyx, in the order called

\* ------------------------------------------------------------- transport
\* The world an operation acts on: w.fb the session, w.usb the endpoints, w.obs
\* the observer, w.in the outcomes the transport is about to report, w.ret the
\* value the last primitive returned, w.len the byte count it reported.

World(fb, u, o, in) == [fb |-> fb, usb |-> u, obs |-> o, in |-> in, ret |-> 0, len |-> 0]

\* usb_device_read_ep1_out(buf, len, &bytes_read, false): arm a read of up to
\* len bytes; non-zero when the transport refuses.
usb_device_read_ep1_out(w, kind, off, len) ==
  LET ret    == IF w.in.rdErr THEN 1 ELSE 0
      logged == [w EXCEPT
                   !.obs.ops = Append(@, OpRecord("read", kind, off, len, << >>, ret, w)),
                   !.obs.rd_refused = @ \/ w.in.rdErr]
  IN  IF w.in.rdErr
        THEN [logged EXCEPT !.ret = 1]
        ELSE [logged EXCEPT
                !.usb.rd = [kind |-> kind, off |-> off, len |-> len,
                            stat |-> "active", n |-> 0],
                !.ret = 0]

\* usb_device_write_ep1_in(buf, len, &bytes_written, false): arm a write of the
\* first len bytes of buf; non-zero when the transport refuses.
usb_device_write_ep1_in(w, buf, len) ==
  LET frame  == SubSeq(buf, 1, len)
      ret    == IF w.in.wrErr THEN 1 ELSE 0
      logged == [w EXCEPT
                   !.obs.ops = Append(@, OpRecord("write", "resp", 0, len, frame, ret, w)),
                   !.obs.resp = Append(@, frame),
                   !.obs.armed_tick = TRUE]
  IN  IF w.in.wrErr
        THEN [logged EXCEPT !.ret = 1]
        ELSE [logged EXCEPT !.usb.wr = [stat |-> "active", frame |-> frame], !.ret = 0]

\* usb_device_ep1_out_reading_poll(&bytes_read): 0 and the byte count when the
\* armed read has completed, 3 while it is active, another value on error.
usb_device_ep1_out_reading_poll(w) ==
  IF w.in.pollErr THEN [w EXCEPT !.ret = 1]
  ELSE IF w.usb.rd.stat = "done"
    THEN [w EXCEPT !.ret = 0, !.len = w.usb.rd.n, !.usb.rd.stat = "idle",
                   !.usb.rd.kind = "none"]
    ELSE [w EXCEPT !.ret = 3]

\* usb_device_ep1_in_writing_poll(&bytes_written): as for the read.
usb_device_ep1_in_writing_poll(w) ==
  IF w.in.pollErr THEN [w EXCEPT !.ret = 1]
  ELSE IF w.usb.wr.stat = "done"
    THEN [w EXCEPT !.ret = 0, !.len = Len(w.usb.wr.frame), !.usb.wr.stat = "idle"]
    ELSE [w EXCEPT !.ret = 3]

\* ---------------------------------------------------------------- session

\* A status setter that stores whatever it is given: what C5 rules out.
fastboot_set_status_overwriting(w, new_status) ==
  [w EXCEPT !.fb.status = new_status, !.ret = 1]

\* static bool fastboot_set_status(fastboot, new_status): the status ratchet;
\* w.ret is the value returned.
fastboot_set_status(w, new_status) ==
  IF w.fb.status <= new_status
    THEN [w EXCEPT !.fb.status = new_status, !.ret = 1]
    ELSE [w EXCEPT !.ret = 0]

\* static void fastboot_handle_ep0_ctrl(fastboot); pending is what
\* usbd_handle_ep0_pending_control_transfer() returns.
fastboot_handle_ep0_ctrl(w, pending) ==
  IF pending THEN fastboot_set_status(w, FASTBOOT_STATUS_PROTOCOL_RESET) ELSE w

\* ------------------------------------------------------------ state entry

fastboot_rx_enter_idle(w) == [w EXCEPT !.fb.rx_state = "IDLE"]

fastboot_rx_enter_command(w) ==
  LET r == usb_device_read_ep1_out(w, "cmd", 0, FASTBOOT_COMMAND_BUFFER_SIZE)
      s == IF r.ret # 0 THEN fastboot_set_status(r, FASTBOOT_STATUS_USB_ERROR) ELSE r
  IN  [s EXCEPT !.fb.rx_state = "COMMAND"]

\* An entry to the gate that arms the next command read at once: what C24
\* rules out.
fastboot_rx_enter_waiting_tx_for_process_rearming(w) ==
  [fastboot_rx_enter_command(w) EXCEPT !.fb.rx_state = "WAITING_TX_FOR_PROCESS"]

fastboot_rx_enter_waiting_tx_for_process(w) ==
  [w EXCEPT !.fb.rx_state = "WAITING_TX_FOR_PROCESS"]

\* A reboot disposition that leaves RX idle: what C22 rules out.
fastboot_rx_enter_waiting_tx_for_reboot_bootloader_idle(w) ==
  [w EXCEPT !.fb.rx_state = "IDLE"]

fastboot_rx_enter_waiting_tx_for_reboot_bootloader(w) ==
  [w EXCEPT !.fb.rx_state = "WAITING_TX_FOR_REBOOT_BOOTLOADER"]

\* A TX machine left as the memset made it: what C23 rules out.
fastboot_tx_enter_idle_skipped(w) == w

fastboot_tx_enter_idle(w) == [w EXCEPT !.fb.tx_state = "IDLE"]

fastboot_tx_enter_send_response(w) ==
  LET r == usb_device_write_ep1_in(w, w.fb.tx_buffer, strlen(w.fb.tx_buffer, 0))
      s == IF r.ret # 0 THEN fastboot_set_status(r, FASTBOOT_STATUS_USB_ERROR) ELSE r
  IN  [s EXCEPT !.fb.tx_state = "SEND_RESPONSE"]

\* A read length that ignores what is left of the download: what C8 rules out.
download_read_length_whole_chunk(fb) == USB_EP_BUFFER_MAX_SIZE

\* The length of the read fastboot_rx_enter_download arms.
download_read_length(fb) ==
  Min(fb.download_size - fb.download_head, USB_EP_BUFFER_MAX_SIZE)

RECURSIVE fastboot_send_response(_, _, _, _)
RECURSIVE fastboot_rx_enter_download(_)

\* An emission routine that arms the write before it resolves the disposition:
\* what C3 rules out.
fastboot_send_response_write_first(w, type, disposition, message) ==
  LET cleared == ZeroBuf(FASTBOOT_COMMAND_BUFFER_SIZE + 1)
      tagged  == strcpy(cleared, ResponseTag(type))
      built   == strncpy(tagged, 4, message, FASTBOOT_COMMAND_BUFFER_SIZE + 1 - 4)
      w1      == fastboot_tx_enter_send_response([w EXCEPT !.fb.tx_buffer = built])
  IN  CASE disposition = "NORMAL" -> fastboot_rx_enter_command(w1)
        [] disposition = "DOWNLOAD" -> fastboot_rx_enter_download(w1)
        [] disposition = "REBOOT_BOOTLOADER" ->
             fastboot_rx_enter_waiting_tx_for_reboot_bootloader(w1)

\* static void fastboot_send_response(fastboot, type, disposition, message):
\* build the frame, resolve the disposition into the next RX state, then arm
\* the write.
fastboot_send_response(w, type, disposition, message) ==
  LET cleared == ZeroBuf(FASTBOOT_COMMAND_BUFFER_SIZE + 1)
      tagged  == strcpy(cleared, ResponseTag(type))
      built   == strncpy(tagged, 4, message, FASTBOOT_COMMAND_BUFFER_SIZE + 1 - 4)
      w1      == [w EXCEPT !.fb.tx_buffer = built]
      w2      == CASE disposition = "NORMAL" -> fastboot_rx_enter_command(w1)
                   [] disposition = "DOWNLOAD" -> fastboot_rx_enter_download(w1)
                   [] disposition = "REBOOT_BOOTLOADER" ->
                        fastboot_rx_enter_waiting_tx_for_reboot_bootloader(w1)
  IN  fastboot_tx_enter_send_response(w2)

\* A download entry that arms every read at the start of the staging region:
\* what C20 rules out.
fastboot_rx_enter_download_at_start(w) ==
  IF w.fb.download_head < w.fb.download_size
    THEN LET r == usb_device_read_ep1_out(w, "dl", 0, download_read_length(w.fb))
             s == IF r.ret # 0
                    THEN fastboot_set_status(r, FASTBOOT_STATUS_USB_ERROR) ELSE r
         IN  [s EXCEPT !.fb.rx_state = "DOWNLOAD"]
    ELSE fastboot_send_response([w EXCEPT !.fb.tight_turnaround = FALSE],
                                "OKAY", "NORMAL", STR_got_it)

\* static void fastboot_rx_enter_download(fastboot)
fastboot_rx_enter_download(w) ==
  IF w.fb.download_head < w.fb.download_size
    THEN LET r == usb_device_read_ep1_out(w, "dl", w.fb.download_head,
                                          download_read_length(w.fb))
             s == IF r.ret # 0
                    THEN fastboot_set_status(r, FASTBOOT_STATUS_USB_ERROR) ELSE r
         IN  [s EXCEPT !.fb.rx_state = "DOWNLOAD"]
    ELSE fastboot_send_response([w EXCEPT !.fb.tight_turnaround = FALSE],
                                "OKAY", "NORMAL", STR_got_it)

\* ------------------------------------------------------------ interpreter

\* A u32 as << high half, low half >>, each 16 bits wide.
u32_zero == << 0, 0 >>

\* v <<= 4 on a u32: the top four bits fall off.
u32_shl4(v) == << ((v[1] % 4096) * 16) + (v[2] \div 4096), (v[2] % 4096) * 16 >>

\* v |= d for a digit d < 16 and a v whose low four bits are clear.
u32_or_digit(v, d) == << v[1], v[2] + d >>

\* A comparison of the low halves only: what C6 rules out.
u32_gt_low_half(a, b) == a[2] > b[2]

\* a > b on u32 values.
u32_gt(a, b) == a[1] > b[1] \/ (a[1] = b[1] /\ a[2] > b[2])

u32_of(n) == << n \div 65536, n % 65536 >>

\* The number a u32 below 2^31 holds.
u32_value(v) == v[1] * 65536 + v[2]

RECURSIVE parse_download_size(_, _, _)
\* The loop `for (int i = 9; i < 9+8; i++)` of fastboot_handle_command, from
\* its iteration i on: the size parsed, or a failure at the first byte that is
\* no hex digit.
parse_download_size(command, i, download_size) ==
  IF ~(i < 9 + 8)
    THEN [parsed_int_ok |-> TRUE, download_size |-> download_size]
    ELSE LET shifted == u32_shl4(download_size)
             ch      == command[i + 1]
         IN  IF ch >= Ord("0") /\ ch <= Ord("9")
               THEN parse_download_size(command, i + 1,
                                        u32_or_digit(shifted, ch - Ord("0")))
             ELSE IF ch >= Ord("a") /\ ch <= Ord("f")
               THEN parse_download_size(command, i + 1,
                                        u32_or_digit(shifted, ch - Ord("a") + 10))
             ELSE IF ch >= Ord("A") /\ ch <= Ord("F")
               THEN parse_download_size(command, i + 1,
                                        u32_or_digit(shifted, ch - Ord("A") + 10))
             ELSE [parsed_int_ok |-> FALSE, download_size |-> shifted]

RECURSIVE hex_digits(_, _)
\* The hex digits of v, most significant first, none for 0; `letters` are the
\* characters of the digits ten to fifteen.
hex_digits(v, letters) ==
  IF v = 0 THEN << >>
  ELSE LET d == v % 16
       IN  Append(hex_digits(v \div 16, letters),
                  IF d < 10 THEN Ord("0") + d ELSE Ord(letters[d - 9]))

\* Left padding with '0' to eight characters.
pad08(text) == [i \in 1..(8 - Len(text)) |-> Ord("0")] \o text

\* s_printf(message, "%08x", v) and s_printf(message, "%08X", v)
s_printf_08x(v) == pad08(hex_digits(v, Lowers))
s_printf_08X(v) == pad08(hex_digits(v, Uppers))

\* strncat(message, command, n) on char message[61] = "unknown command: ":
\* at most n bytes of the command line are appended.
strncat(dst_text, src_text, n) == dst_text \o SubSeq(src_text, 1, Min(Len(src_text), n))

\* The message of the `unknown command` branch: strncat of at most
\* sizeof(message) - strlen(message) bytes, then message[60] = '\0'.
unknown_command_message(command) ==
  LET sizeof_message == 61
      appended == strncat(STR_unknown_command, CStr(command, 0),
                          sizeof_message - Len(STR_unknown_command))
  IN  SubSeq(appended, 1, Min(Len(appended), 60))

\* The terminator of that strncat: it is stored at message[17 + n], which for a
\* command of sizeof(message) - 17 bytes or more is message[61], the byte after
\* the array. The behaviour is undefined; w.in.live tells whether the byte
\* belongs to a live object of the frame, in which case nothing is known of
\* what follows.
unknown_command_overrun(w, command) ==
  LET sizeof_message == 61
      n == Min(strlen(command, 0), sizeof_message - Len(STR_unknown_command))
      top == IF Len(STR_unknown_command) + n > sizeof_message - 1
               THEN Len(STR_unknown_command) + n ELSE sizeof_message - 1
  IN  IF Len(STR_unknown_command) + n >= sizeof_message /\ w.in.live
        THEN [w EXCEPT !.obs.ub = TRUE, !.obs.msg_top = top]
        ELSE [w EXCEPT !.obs.msg_top = top]

\* The observer's note that the interpreter runs, and on which line.
NoteCommand(w) ==
  [w EXCEPT !.obs.interp = TRUE,
            !.obs.ncmd = 1,
            !.obs.resp = << >>,
            !.obs.line = SubSeq(w.fb.rx_buffer, 1, w.fb.rx_length)]

\* The `download:` branch of fastboot_handle_command.
handle_download(w, command) ==
  LET p == parse_download_size(command, 9, u32_zero)
  IN  IF ~p.parsed_int_ok
        THEN fastboot_send_response(w, "FAIL", "NORMAL", STR_failed_to_parse_size)
      ELSE IF u32_gt(p.download_size, u32_of(fastboot_download_capacity))
        THEN fastboot_send_response(w, "FAIL", "NORMAL", STR_download_size_too_large)
      ELSE LET size == u32_value(p.download_size)
               w1   == [w EXCEPT !.fb.download_head = 0,
                                 !.fb.download_amount = 0,
                                 !.fb.download_size = size]
           IN  fastboot_send_response(w1, "DATA", "DOWNLOAD", s_printf_08x(size))

\* A `getvar:` branch that compares the start of the variable only: what C13
\* rules out.
handle_getvar_by_prefix(w, command) ==
  IF strncmp_eq(SubSeq(command, 8, Len(command)), STR_version, 7)
    THEN fastboot_send_response(w, "OKAY", "NORMAL", STR_0_4)
  ELSE IF strncmp_eq(SubSeq(command, 8, Len(command)), STR_product, 7)
    THEN fastboot_send_response(w, "OKAY", "NORMAL", STR_Nyx)
  ELSE IF strncmp_eq(SubSeq(command, 8, Len(command)), STR_max_download_size, 17)
    THEN fastboot_send_response(w, "OKAY", "NORMAL",
                                s_printf_08X(fastboot_download_capacity))
  ELSE fastboot_send_response(w, "FAIL", "NORMAL", STR_unknown_variable)

\* The `getvar:` branch of fastboot_handle_command.
handle_getvar(w, command) ==
  IF strcmp_eq(command, 7, STR_version)
    THEN fastboot_send_response(w, "OKAY", "NORMAL", STR_0_4)
  ELSE IF strcmp_eq(command, 7, STR_product)
    THEN fastboot_send_response(w, "OKAY", "NORMAL", STR_Nyx)
  ELSE IF strcmp_eq(command, 7, STR_max_download_size)
    THEN fastboot_send_response(w, "OKAY", "NORMAL",
                                s_printf_08X(fastboot_download_capacity))
  ELSE fastboot_send_response(w, "FAIL", "NORMAL", STR_unknown_variable)

\* static void fastboot_handle_command(fastboot)
fastboot_handle_command(w0) ==
  LET w       == NoteCommand(w0)
      command == w.fb.rx_buffer
  IN  IF strncmp_eq(command, STR_getvar, 7)
        THEN handle_getvar(w, command)
      ELSE IF strcmp_eq(command, 0, STR_reboot_bootloader)
        THEN fastboot_send_response(w, "OKAY", "REBOOT_BOOTLOADER", << >>)
      ELSE IF strncmp_eq(command, STR_download, 9)
        THEN handle_download(w, command)
      ELSE fastboot_send_response(unknown_command_overrun(w, command),
                                  "FAIL", "NORMAL", unknown_command_message(command))

\* ---------------------------------------------------------- state process

fastboot_rx_state_idle(w) == w

\* A command state that leaves the line unterminated: what C7 rules out.
fastboot_rx_state_command_unterminated(w) ==
  LET r == usb_device_ep1_out_reading_poll(w)
  IN  IF r.ret = 0
        THEN fastboot_rx_enter_waiting_tx_for_process([r EXCEPT !.fb.rx_length = r.len])
      ELSE IF r.ret = 3 THEN r
      ELSE fastboot_set_status(r, FASTBOOT_STATUS_USB_ERROR)

fastboot_rx_state_command(w) ==
  LET r == usb_device_ep1_out_reading_poll(w)
  IN  IF r.ret = 0
        THEN fastboot_rx_enter_waiting_tx_for_process(
               [r EXCEPT !.fb.rx_length = r.len,
                         !.fb.rx_buffer[r.len + 1] = 0])
      ELSE IF r.ret = 3 THEN r
      ELSE fastboot_set_status(r, FASTBOOT_STATUS_USB_ERROR)

fastboot_rx_state_download(w) ==
  LET r == usb_device_ep1_out_reading_poll(w)
  IN  IF r.ret = 0
        THEN fastboot_rx_enter_download(
               [r EXCEPT !.fb.download_amount = r.len,
                         !.fb.download_head = r.fb.download_head + r.len])
      ELSE IF r.ret = 3 THEN r
      ELSE fastboot_set_status(r, FASTBOOT_STATUS_USB_ERROR)

\* A gate that does not look at tx_state: what C4 rules out.
fastboot_rx_state_waiting_tx_for_process_ungated(w) ==
  fastboot_handle_command(fastboot_rx_enter_idle(w))

fastboot_rx_state_waiting_tx_for_process(w) ==
  IF w.fb.tx_state = "IDLE"
    THEN fastboot_handle_command(fastboot_rx_enter_idle(w))
    ELSE w

\* A reboot gate that does not look at tx_state: what C2 rules out.
fastboot_rx_state_waiting_tx_for_reboot_bootloader_ungated(w) ==
  fastboot_set_status(fastboot_rx_enter_idle(w), FASTBOOT_STATUS_REBOOT_BOOTLOADER)

fastboot_rx_state_waiting_tx_for_reboot_bootloader(w) ==
  IF w.fb.tx_state = "IDLE"
    THEN fastboot_set_status(fastboot_rx_enter_idle(w),
                             FASTBOOT_STATUS_REBOOT_BOOTLOADER)
    ELSE w

fastboot_tx_state_idle(w) == w

\* What C21 rules out: a completed write that leaves TX in SEND_RESPONSE.
fastboot_tx_state_send_response_staying(w) ==
  LET r == usb_device_ep1_in_writing_poll(w)
  IN  IF r.ret = 0 THEN [r EXCEPT !.fb.tx_length = r.len]
      ELSE IF r.ret = 3 THEN r
      ELSE fastboot_set_status(r, FASTBOOT_STATUS_USB_ERROR)

fastboot_tx_state_send_response(w) ==
  LET r == usb_device_ep1_in_writing_poll(w)
  IN  IF r.ret = 0 THEN fastboot_tx_enter_idle([r EXCEPT !.fb.tx_length = r.len])
      ELSE IF r.ret = 3 THEN r
      ELSE fastboot_set_status(r, FASTBOOT_STATUS_USB_ERROR)

\* switch (fastboot.rx_state) of the loop
rx_dispatch(w) ==
  CASE w.fb.rx_state = "IDLE" -> fastboot_rx_state_idle(w)
    [] w.fb.rx_state = "COMMAND" -> fastboot_rx_state_command(w)
    [] w.fb.rx_state = "DOWNLOAD" -> fastboot_rx_state_download(w)
    [] w.fb.rx_state = "WAITING_TX_FOR_PROCESS" ->
         fastboot_rx_state_waiting_tx_for_process(w)
    [] w.fb.rx_state = "WAITING_TX_FOR_REBOOT_BOOTLOADER" ->
         fastboot_rx_state_waiting_tx_for_reboot_bootloader(w)
    [] OTHER -> fastboot_set_status(w, FASTBOOT_STATUS_INVALID_STATE)

\* switch (fastboot.tx_state) of the loop
tx_dispatch(w) ==
  CASE w.fb.tx_state = "IDLE" -> fastboot_tx_state_idle(w)
    [] w.fb.tx_state = "SEND_RESPONSE" -> fastboot_tx_state_send_response(w)
    [] OTHER -> fastboot_set_status(w, FASTBOOT_STATUS_INVALID_STATE)

\* An exit path that restarts before the teardown: what C10 rules out.
exit_calls_restart_first(status) ==
  IF status = FASTBOOT_STATUS_REBOOT_BOOTLOADER
    THEN << "reload_nyx", "usbd_end" >>
    ELSE << "usbd_end" >>

\* The calls of the exit path: usbd_end(true, false), then reload_nyx() when
\* the status is REBOOT_BOOTLOADER.
exit_calls(status) ==
  IF status = FASTBOOT_STATUS_REBOOT_BOOTLOADER
    THEN << "usbd_end", "reload_nyx" >>
    ELSE << "usbd_end" >>

\* ------------------------------------------------------------------- host

\* The hex digits of v in n characters, as the host writes them.
HexText(v, n, letters) ==
  [i \in 1..n |->
     LET d == (v \div (16 ^ (n - i))) % 16
     IN  IF d < 10 THEN Ord(Digits[d + 1]) ELSE Ord(letters[d - 9])]

\* `download:` and the eight hex digits of S.
DownloadLine(S, letters) == STR_download \o HexText(S, 8, letters)

\* What the host sends after a `DATA` answer to a line announcing S bytes.
Payload(S) == IF S <= Capacity THEN S ELSE 0

HostLine(text, pay, reboot) == [text |-> text, pay |-> pay, reboot |-> reboot]

\* The command lines the host may send.
Lines ==
  { HostLine(STR_getvar \o STR_version, 0, FALSE),
    HostLine(STR_reboot_bootloader, 0, TRUE),
    HostLine(STR_download \o B(<< "1","2" >>), 0, FALSE) }
  \cup { HostLine(DownloadLine(S, Lowers), Payload(S), FALSE) : S \in 0..(Capacity + 1) }

\* The transport stores the bytes received at the start of the read's buffer.
dma_write(buf, text) ==
  [i \in 1..Len(buf) |-> IF i <= Len(text) THEN text[i] ELSE buf[i]]

host_start ==
  [turn |-> "line", pay |-> 0, announced |-> 0, reboot |-> FALSE,
   queued |-> FALSE, last |-> << >>]

Live == pc \in { "loop", "rx", "tx" }

\* The host sends a command line: it lands in the buffer of the armed command
\* read, or is lost when none is armed.
HostSendLine ==
  /\ Live
  /\ host.turn = "line"
  /\ \E l \in Lines :
       /\ host' = [host EXCEPT !.turn = "wait", !.announced = l.pay, !.reboot = l.reboot]
       /\ IF usb.rd.kind = "cmd" /\ usb.rd.stat = "active"
            THEN /\ fastboot' = [fastboot EXCEPT !.rx_buffer = dma_write(@, l.text)]
                 /\ usb' = [usb EXCEPT !.rd.stat = "done", !.rd.n = Len(l.text)]
                 /\ obs' = [obs EXCEPT !.burst = @ \/ (usb.wr.stat = "done")]
            ELSE /\ obs' = [obs EXCEPT !.lost = TRUE]
                 /\ UNCHANGED << fastboot, usb >>
  /\ UNCHANGED << pc, res >>

\* A host sending back-to-back: the next command line goes out while the final
\* response to the previous one is still in flight.
HostSendAhead ==
  /\ Live
  /\ host.turn = "wait" /\ ~host.queued /\ ~host.reboot
  /\ usb.wr.stat = "active"
  /\ SubSeq(usb.wr.frame, 1, 4) # ResponseTag("DATA")
  /\ \E l \in Lines :
       /\ host' = [host EXCEPT !.queued = TRUE, !.announced = l.pay, !.reboot = l.reboot]
       /\ IF usb.rd.kind = "cmd" /\ usb.rd.stat = "active"
            THEN /\ fastboot' = [fastboot EXCEPT !.rx_buffer = dma_write(@, l.text)]
                 /\ usb' = [usb EXCEPT !.rd.stat = "done", !.rd.n = Len(l.text)]
                 /\ obs' = obs
            ELSE /\ obs' = [obs EXCEPT !.lost = TRUE]
                 /\ UNCHANGED << fastboot, usb >>
  /\ UNCHANGED << pc, res >>

\* The armed write leaves the device and the host reads the response.
HostReceive ==
  /\ Live
  /\ usb.wr.stat = "active"
  /\ usb' = [usb EXCEPT !.wr.stat = "done"]
  /\ LET tag == SubSeq(usb.wr.frame, 1, 4)
     IN  host' =
           [host EXCEPT
              !.last = usb.wr.frame,
              !.pay  = IF tag = ResponseTag("DATA") /\ ~host.queued
                         THEN host.announced ELSE @,
              !.queued = FALSE,
              !.turn = IF host.turn # "wait" \/ host.queued THEN @
                       ELSE IF tag = ResponseTag("DATA")
                         THEN (IF host.announced > 0 THEN "data" ELSE "wait")
                       ELSE IF host.reboot /\ tag = ResponseTag("OKAY") THEN "done"
                       ELSE "line"]
  /\ UNCHANGED << pc, res, fastboot, obs >>

\* The host sends payload into the armed download read, which completes with
\* n bytes, never more than the length armed.
HostSendData ==
  /\ Live
  /\ host.turn = "data"
  /\ usb.rd.kind = "dl" /\ usb.rd.stat = "active"
  /\ \E n \in 0..usb.rd.len :
       /\ usb' = [usb EXCEPT !.rd.stat = "done", !.rd.n = n]
       /\ host' = [host EXCEPT !.pay = IF n >= @ THEN 0 ELSE @ - n,
                               !.turn = IF n >= host.pay THEN "wait" ELSE @]
  /\ UNCHANGED << pc, res, fastboot, obs >>

\* ----------------------------------------------- usb_device_gadget_fastboot

Outcomes == [rdErr : BOOLEAN, wrErr : BOOLEAN, pollErr : BOOLEAN, live : BOOLEAN]
NoError  == [rdErr |-> FALSE, wrErr |-> FALSE, pollErr |-> FALSE, live |-> FALSE]

Init ==
  /\ pc = "init"
  /\ res = 0
  /\ fastboot = fastboot_zeroed
  /\ usb = usb_idle
  /\ host = host_start
  /\ obs = obs_none

\* if (usb_device_init()) { usbd_end(false, true); return true; }
UsbDeviceInit ==
  /\ pc = "init"
  /\ \E failed \in BOOLEAN :
       IF failed
         THEN /\ pc' = "returned"
              /\ res' = 1
              /\ obs' = [obs EXCEPT !.calls = Append(@, "usbd_end")]
         ELSE /\ pc' = "ep0"
              /\ UNCHANGED << res, obs >>
  /\ UNCHANGED << fastboot, usb, host >>

\* The zeroed session, usb_device_ep0_initialize, and on success the first
\* control check, the first command read and TX idle.
Ep0Initialize ==
  /\ pc = "ep0"
  /\ \E failed \in BOOLEAN, pending \in BOOLEAN, in \in Outcomes :
       IF failed
         THEN /\ pc' = "exit"
              /\ res' = 1
              /\ fastboot' = fastboot_zeroed
              /\ UNCHANGED << usb, obs >>
         ELSE LET w0 == World(fastboot_zeroed, usb, obs, in)
                  w1 == fastboot_handle_ep0_ctrl(w0, pending)
                  w2 == fastboot_rx_enter_command(w1)
                  w3 == fastboot_tx_enter_idle(w2)
              IN  /\ pc' = "loop"
                  /\ fastboot' = w3.fb
                  /\ usb' = w3.usb
                  /\ obs' = [w3.obs EXCEPT !.init_ok = TRUE, !.reset = pending]
                  /\ UNCHANGED res
  /\ UNCHANGED host

\* A loop that does not test the status: what C19 rules out.
LoopHead_whatever_status ==
  /\ pc = "loop"
  /\ \E suspended \in BOOLEAN, pending \in BOOLEAN :
       LET o == [obs EXCEPT !.maint = ~fastboot.tight_turnaround,
                            !.armed_tick = FALSE,
                            !.interp = FALSE,
                            !.rx_steps = 0,
                            !.tx_steps = 0,
                            !.reset = pending /\ ~suspended]
       IN  IF suspended
             THEN /\ pc' = "exit"
                  /\ obs' = [o EXCEPT !.suspended = TRUE]
                  /\ UNCHANGED fastboot
             ELSE LET w == fastboot_handle_ep0_ctrl(
                             World(fastboot, usb, o, NoError), pending)
                  IN  /\ pc' = "rx"
                      /\ fastboot' = w.fb
                      /\ obs' = w.obs
  /\ UNCHANGED << res, usb, host >>

\* The head of the loop: its condition, the maintenance, the suspend check and
\* the control check of a tick.
LoopHead ==
  /\ pc = "loop"
  /\ IF fastboot.status # FASTBOOT_STATUS_NORMAL
       THEN /\ pc' = "exit"
            /\ UNCHANGED << fastboot, obs >>
       ELSE \E suspended \in BOOLEAN, pending \in BOOLEAN :
              LET o == [obs EXCEPT !.maint = ~fastboot.tight_turnaround,
                                   !.armed_tick = FALSE,
                                   !.interp = FALSE,
                                   !.rx_steps = 0,
                                   !.tx_steps = 0,
                                   !.reset = pending /\ ~suspended]
              IN  IF suspended
                    THEN /\ pc' = "exit"
                         /\ obs' = [o EXCEPT !.suspended = TRUE]
                         /\ UNCHANGED fastboot
                    ELSE LET w == fastboot_handle_ep0_ctrl(
                                    World(fastboot, usb, o, NoError), pending)
                         IN  /\ pc' = "rx"
                             /\ fastboot' = w.fb
                             /\ obs' = w.obs
  /\ UNCHANGED << res, usb, host >>

\* The RX step of a tick.
RxStep ==
  /\ pc = "rx"
  /\ \E in \in Outcomes :
       LET o == [obs EXCEPT
                   !.ops = << >>,
                   !.interp = FALSE,
                   !.pre_rx = fastboot.rx_state,
                   !.pre_tx = fastboot.tx_state,
                   !.pre_wr = usb.wr.stat,
                   !.pre_armed = obs.armed_tick,
                   !.burst = FALSE,
                   !.rx_steps = @ + 1,
                   !.stalled =
                     IF fastboot.rx_state = "COMMAND" THEN FALSE
                     ELSE IF /\ fastboot.rx_state = "WAITING_TX_FOR_PROCESS"
                             /\ fastboot.tx_state # "IDLE" THEN TRUE
                     ELSE @]
           w == rx_dispatch(World(fastboot, usb, o, in))
       IN  /\ fastboot' = w.fb
           /\ usb' = w.usb
           /\ obs' = w.obs
           /\ pc' = IF w.obs.ub THEN "undefined" ELSE "tx"
  /\ UNCHANGED << res, host >>

\* The TX step of a tick, and the refresh of the state display.
TxStep ==
  /\ pc = "tx"
  /\ \E pollErr \in BOOLEAN :
       LET w == tx_dispatch(World(fastboot, usb, obs,
                                  [NoError EXCEPT !.pollErr = pollErr]))
       IN  /\ fastboot' = w.fb
           /\ usb' = w.usb
           /\ obs' = [w.obs EXCEPT !.display = ~w.fb.tight_turnaround,
                                   !.tx_steps = @ + 1]
  /\ pc' = "loop"
  /\ UNCHANGED << res, host >>

\* An exit path on which the status USB_ERROR runs on into `error:`: what C15
\* rules out.
Exit_into_error ==
  /\ pc = "exit"
  /\ pc' = "returned"
  /\ res' = IF fastboot.status = FASTBOOT_STATUS_USB_ERROR THEN 1 ELSE res
  /\ obs' = [obs EXCEPT !.calls = @ \o exit_calls(fastboot.status)]
  /\ UNCHANGED << fastboot, usb, host >>

\* The exit path: the end-of-run text, usbd_end(true, false), reload_nyx()
\* for REBOOT_BOOTLOADER, return res.
Exit ==
  /\ pc = "exit"
  /\ pc' = "returned"
  /\ obs' = [obs EXCEPT !.calls = @ \o exit_calls(fastboot.status)]
  /\ UNCHANGED << res, fastboot, usb, host >>

Next ==
  \/ UsbDeviceInit
  \/ Ep0Initialize
  \/ LoopHead
  \/ RxStep
  \/ TxStep
  \/ Exit
  \/ HostSendLine
  \/ HostSendAhead
  \/ HostReceive
  \/ HostSendData

Spec == Init /\ [][Next]_vars

\* ----------------------------------------------- the ratchet on its own

\* How many calls of fastboot_set_status a run of SpecStatus makes.
MaxRaises == 3

\* One call of fastboot_set_status on the session, with any status.
SetStatus ==
  /\ pc = "init"
  /\ Len(obs.raises) < MaxRaises
  /\ \E new_status \in fastboot_status :
       LET w == fastboot_set_status(World(fastboot, usb, obs, NoError), new_status)
       IN  /\ fastboot' = w.fb
           /\ obs' = [obs EXCEPT !.raises = Append(@, new_status)]
  /\ UNCHANGED << pc, res, usb, host >>

\* The session as constructed (status NORMAL), then calls of fastboot_set_status.
SpecStatus == Init /\ [][SetStatus]_vars

\* ------------------------------------------- the interpreter on its own

\* A text of n copies of a character.
Repeat(c, n) == [i \in 1..n |-> Ord(c)]

\* Command lines for the interpreter: well-formed and malformed `download:`
\* lines of every shape, and lines of other commands.
InterpTexts ==
  { l.text : l \in Lines }
  \cup { DownloadLine(S, Lowers) : S \in { Capacity + 2, 10, 11, 171, 65535 } }
  \cup { DownloadLine(S, Uppers) : S \in { 10, 15, 171, 65536 } }
  \cup { STR_download \o B(t) : t \in
           { << "f","f","f","f","f","f","f","f" >>,
             << "F","F","F","F","F","F","F","F" >>,
             << "8","0","0","0","0","0","0","1" >>,
             << "0","0","0","0","0","0","0","g" >>,
             << "0","0","0","0","0","0","0","G" >>,
             << "g","0","0","0","0","0","0","0" >>,
             << "0","0","0","0",":","0","0","1" >>,
             << "0","0","0"," ","0","0","0","1" >>,
             << "-","0","0","0","0","0","0","1" >>,
             << "0","x","0","0","0","0","0","1" >>,
             << "0","0","0","0","0","0","0","1","z" >>,
             << "0","0","0","0","0","0","0","9","9" >>,
             << "0","0","0","0","0","0","1" >>,
             << "1" >>,
             << >> } }
  \cup { Repeat("f", 64), Repeat("0", 40),
         B(<< "d","o","w","n","l","o","a","d" >>),
         B(<< "x" >>), << >> }
  \cup { STR_getvar \o t : t \in
           { STR_product, STR_max_download_size, << >>,
             STR_version \o B(<< "s" >>),
             B(<< "v","e","r","s","i","o" >>),
             B(<< "P","r","o","d","u","c","t" >>),
             Repeat("v", 57) } }
  \cup { Repeat("x", L) : L \in { 42, 43, 44, 45, 63 } }
  \cup { B(<< "g","e","t","v","a","r" >>),
         B(<< "r","e","b","o","o","t" >>),
         STR_reboot_bootloader \o B(<< "!" >>) }

\* The session after the transport stored `text` for the armed command read and
\* fastboot_rx_state_command polled it.
Received(fb, text) ==
  LET u == [usb_idle EXCEPT !.rd = [kind |-> "cmd", off |-> 0,
                                    len |-> FASTBOOT_COMMAND_BUFFER_SIZE,
                                    stat |-> "done", n |-> Len(text)]]
      w == World([fb EXCEPT !.rx_buffer = dma_write(@, text), !.rx_state = "COMMAND"],
                 u, obs_none, NoError)
  IN  fastboot_rx_state_command(w).fb

\* Whether the host's line announces a download the device accepts.
AcceptedDownload(text) == \E S \in 0..Capacity : text = DownloadLine(S, Lowers)

\* The session at the gate with a line to interpret: an earlier download of d
\* bytes has completed, a line that starts no download was answered after it,
\* and the line `cur` has just been received.
InterpInit ==
  /\ pc = "rx"
  /\ res = 0
  /\ usb = usb_idle
  /\ host = [host_start EXCEPT !.turn = "wait"]
  /\ obs = [obs_none EXCEPT !.ncmd = 1, !.init_ok = TRUE]
  /\ \E d \in 0..Capacity, prev \in InterpTexts, cur \in InterpTexts :
       /\ ~AcceptedDownload(prev)
       /\ IF Len(prev) < 17 THEN TRUE ELSE ~AcceptedDownload(SubSeq(prev, 1, 17))
       /\ LET fb0 == [fastboot_zeroed EXCEPT !.tx_state = "IDLE",
                                             !.download_head = d,
                                             !.download_size = d,
                                             !.download_amount = Min(d, 1)]
              fb1 == Received(fb0, DownloadLine(d, Lowers))
              fb2 == Received(fb1, prev)
          IN  fastboot = Received(fb2, cur)

\* One RX step at the gate: the interpreter runs on the line.
SpecInterp == InterpInit /\ [][RxStep]_vars

\* ------------------------------------------------- under a fair transport

\* The steps of the function when the transport initialises, is never
\* suspended, sees no control transfer and reports no error: the loop keeps
\* running, so a step that can be taken is taken.
DeviceStep ==
  \/ UsbDeviceInit /\ pc' = "ep0"
  \/ Ep0Initialize /\ pc' = "loop" /\ fastboot'.status = FASTBOOT_STATUS_NORMAL
  \/ LoopHead /\ fastboot'.status = fastboot.status
              /\ (fastboot.status = FASTBOOT_STATUS_NORMAL => pc' = "rx")
  \/ RxStep /\ fastboot'.status \in { FASTBOOT_STATUS_NORMAL,
                                       FASTBOOT_STATUS_REBOOT_BOOTLOADER }
  \/ TxStep /\ fastboot'.status = fastboot.status
  \/ Exit

\* An armed download read completes with at least one byte.
HostSendSomeData == HostSendData /\ usb'.rd.n >= 1

FairNext ==
  \/ DeviceStep
  \/ HostSendLine
  \/ HostSendAhead
  \/ HostReceive
  \/ HostSendSomeData

\* Weak fairness of DeviceStep, spelled out.  The function is a single thread
\* that runs until it returns: DeviceStep is enabled exactly while pc is a
\* position of the function (each of its disjuncts is guarded by its pc alone
\* and has the error-free outcome to take), and a step of FairNext is a
\* DeviceStep exactly when it moves pc (the host actions leave pc alone).  So
\* WF_vars(DeviceStep) is: the function is infinitely often at an end, or it
\* steps infinitely often.
DeviceRuns ==
  \/ []<>(pc \in { "returned", "undefined" })
  \/ []<><<pc' # pc>>_vars

\* The session under a fair transport: the function keeps running, an armed
\* write is eventually received, an armed download read eventually filled; the
\* host need not send another line.
SpecFair ==
  /\ Init
  /\ [][FairNext]_vars
  /\ DeviceRuns
  /\ WF_vars(HostReceive)
  /\ WF_vars(HostSendSomeData)

\* ----------------------------------------------------------------- claims

\* The frames and lines the claims name, written out character by character.
FRAME_OKAY_got_it == B(<< "O","K","A","Y","g","o","t"," ","i","t","!" >>)
FRAME_OKAY        == B(<< "O","K","A","Y" >>)
FRAME_FAIL_download_size_too_large ==
  B(<< "F","A","I","L","d","o","w","n","l","o","a","d"," ","s","i","z","e"," ",
       "t","o","o"," ","l","a","r","g","e" >>)
FRAME_FAIL_failed_to_parse_size ==
  B(<< "F","A","I","L","f","a","i","l","e","d"," ","t","o"," ",
       "p","a","r","s","e"," ","s","i","z","e" >>)
TEXT_download_colon == B(<< "d","o","w","n","l","o","a","d",":" >>)
TEXT_DATA           == B(<< "D","A","T","A" >>)

\* The hex digits, by their byte values.
HexCodes ==
  { Ord(Digits[i]) : i \in 1..10 } \cup { Ord(Lowers[i]) : i \in 1..6 }
    \cup { Ord(Uppers[i]) : i \in 1..6 }

\* The value of a hex digit given by its byte value.
HexDigitValue(ch) ==
  IF \E i \in 1..10 : Ord(Digits[i]) = ch
    THEN (CHOOSE i \in 1..10 : Ord(Digits[i]) = ch) - 1
  ELSE IF \E i \in 1..6 : Ord(Lowers[i]) = ch
    THEN (CHOOSE i \in 1..6 : Ord(Lowers[i]) = ch) + 9
  ELSE (CHOOSE i \in 1..6 : Ord(Uppers[i]) = ch) + 9

StartsWithDownload(l) == Len(l) >= 9 /\ SubSeq(l, 1, 9) = TEXT_download_colon

\* The line is `download:` and eight hex digits (and anything after them).
EightHexDigits(l) ==
  /\ StartsWithDownload(l)
  /\ Len(l) >= 17
  /\ \A i \in 10..17 : l[i] \in HexCodes

\* The line announces a size above the capacity: a digit of the high half is
\* not zero, or the low half exceeds the capacity.
AnnouncesTooLarge(l) ==
  /\ EightHexDigits(l)
  /\ \/ \E i \in 10..13 : HexDigitValue(l[i]) # 0
     \/ HexDigitValue(l[14]) * 4096 + HexDigitValue(l[15]) * 256
          + HexDigitValue(l[16]) * 16 + HexDigitValue(l[17]) > Capacity

\* The line is `download:` with a byte that is no hex digit in the window of
\* eight bytes after the colon, or ends inside that window.
BadSizeWindow(l) ==
  /\ StartsWithDownload(l)
  /\ \/ Len(l) < 17
     \/ \E i \in 10..17 : i <= Len(l) /\ l[i] \notin HexCodes

\* The line the gate is about to hand to the interpreter.
LineAtGate == SubSeq(fastboot.rx_buffer, 1, fastboot.rx_length)

GateOpen ==
  /\ pc = "rx"
  /\ fastboot.rx_state = "WAITING_TX_FOR_PROCESS"
  /\ fastboot.tx_state = "IDLE"

\* Every arming call of the last RX step was accepted by the transport.
ArmsAccepted(o) == \A i \in 1..Len(o.ops) : o.ops[i].ret = 0

\* C1: for every size S in 0..Capacity, the frames armed after the interpreter
\* ran on `download:<hex8(S)>` are `DATA<hex8(S)>` first and, once S bytes have
\* been received, `OKAYgot it!` second, and no others.
C1_DownloadResponses ==
  \A S \in 0..Capacity :
    (obs.ncmd = 1 /\ obs.line = DownloadLine(S, Lowers)) =>
      /\ Len(obs.resp) \in 1..2
      /\ obs.resp[1] = TEXT_DATA \o HexText(S, 8, Lowers)
      /\ Len(obs.resp) = 2 =>
           /\ obs.resp[2] = FRAME_OKAY_got_it
           /\ fastboot.download_head = S
      /\ fastboot.download_head = S => Len(obs.resp) = 2

\* C2: the status becomes REBOOT_BOOTLOADER, and reload_nyx is called, only
\* after the gate WAITING_TX_FOR_REBOOT_BOOTLOADER has seen tx_state IDLE in a
\* tick in which no write was armed, the host having received the `OKAY`.
C2_RestartAfterOkayLeft ==
  /\ fastboot.status = FASTBOOT_STATUS_REBOOT_BOOTLOADER =>
       /\ obs.pre_rx = "WAITING_TX_FOR_REBOOT_BOOTLOADER"
       /\ obs.pre_tx = "IDLE"
       /\ ~obs.armed_tick
       /\ usb.wr.stat = "idle"
       /\ host.last = FRAME_OKAY
       /\ host.turn = "done"
  /\ (\E i \in 1..Len(obs.calls) : obs.calls[i] = "reload_nyx") =>
       fastboot.status = FASTBOOT_STATUS_REBOOT_BOOTLOADER

C2_Witness ==
  /\ pc = "returned"
  /\ \E i \in 1..Len(obs.calls) : obs.calls[i] = "reload_nyx"

\* C3: whenever fastboot_send_response arms the write, the disposition has
\* been resolved already: a command read has been armed (NORMAL), or a download
\* read (DOWNLOAD), or the gate for the reboot entered with no read armed; and
\* no line of a host that answers responses is lost while the transport
\* accepts the reads.
C3_RxArmedBeforeWrite ==
  /\ \A i \in 1..Len(obs.ops) :
       obs.ops[i].op = "write" =>
         \/ /\ obs.ops[i].rx_state = "COMMAND"
            /\ \E j \in 1..(i - 1) :
                 /\ obs.ops[j].op = "read" /\ obs.ops[j].kind = "cmd"
                 /\ obs.ops[j].ret = 0 => obs.ops[i].rd_kind = "cmd" /\ obs.ops[i].rd_busy
         \/ /\ obs.ops[i].rx_state = "DOWNLOAD"
            /\ \E j \in 1..(i - 1) :
                 /\ obs.ops[j].op = "read" /\ obs.ops[j].kind = "dl"
                 /\ obs.ops[j].ret = 0 => obs.ops[i].rd_kind = "dl" /\ obs.ops[i].rd_busy
         \/ /\ obs.ops[i].rx_state = "WAITING_TX_FOR_REBOOT_BOOTLOADER"
            /\ \A j \in 1..Len(obs.ops) : obs.ops[j].op # "read"
  /\ obs.lost => obs.rd_refused

\* A line sent right after the response left was taken by the read armed ahead
\* of that response, before the device has polled the write.
C3_Witness ==
  /\ obs.ncmd = 1
  /\ obs.burst
  /\ host.turn = "wait"
  /\ fastboot.tx_state = "SEND_RESPONSE" /\ usb.wr.stat = "done"
  /\ usb.rd.kind = "cmd" /\ usb.rd.stat = "done"
  /\ ~obs.lost

\* C4: the interpreter runs only in an RX step that began in
\* WAITING_TX_FOR_PROCESS with tx_state IDLE, no write still in flight and no
\* write armed earlier in the tick.
C4_InterpreterBehindGate ==
  obs.interp =>
    /\ obs.pre_rx = "WAITING_TX_FOR_PROCESS"
    /\ obs.pre_tx = "IDLE"
    /\ obs.pre_wr # "active"
    /\ ~obs.pre_armed

\* The interpreter ran on a line the gate had held back while the previous
\* response was in flight.
C4_Witness == obs.interp /\ obs.stalled

\* C5: after any calls of fastboot_set_status the status is the highest of
\* NORMAL and the statuses asked for, so no call lowers it; after NORMAL,
\* USB_ERROR, PROTOCOL_RESET it is USB_ERROR.
C5_StatusRatchet ==
  /\ \A i \in 1..Len(obs.raises) : fastboot.status >= obs.raises[i]
  /\ \/ fastboot.status = FASTBOOT_STATUS_NORMAL
     \/ \E i \in 1..Len(obs.raises) : fastboot.status = obs.raises[i]
  /\ obs.raises = << FASTBOOT_STATUS_NORMAL, FASTBOOT_STATUS_USB_ERROR,
                     FASTBOOT_STATUS_PROTOCOL_RESET >>
       => fastboot.status = FASTBOOT_STATUS_USB_ERROR

C5_Witness ==
  /\ obs.raises = << FASTBOOT_STATUS_NORMAL, FASTBOOT_STATUS_USB_ERROR,
                     FASTBOOT_STATUS_PROTOCOL_RESET >>
  /\ fastboot.status = FASTBOOT_STATUS_USB_ERROR

\* C6: when the interpreter runs on a `download:` line whose eight hex digits
\* give a size above the capacity, the frame is `FAILdownload size too large`,
\* download_head and download_size keep their values, rx_state is COMMAND, and
\* with the arming calls accepted a command read is armed and the status stays
\* NORMAL.
C6_TooLarge ==
  [][ (GateOpen /\ AnnouncesTooLarge(LineAtGate)) =>
        /\ CStr(fastboot'.tx_buffer, 0) = FRAME_FAIL_download_size_too_large
        /\ obs'.resp = << FRAME_FAIL_download_size_too_large >>
        /\ fastboot'.download_head = fastboot.download_head
        /\ fastboot'.download_size = fastboot.download_size
        /\ fastboot'.rx_state = "COMMAND"
        /\ ArmsAccepted(obs') =>
             /\ usb'.rd.kind = "cmd" /\ usb'.rd.stat = "active"
             /\ fastboot'.status = FASTBOOT_STATUS_NORMAL ]_vars

C6_Witness ==
  /\ pc = "tx"
  /\ obs.interp
  /\ AnnouncesTooLarge(obs.line)
  /\ obs.resp = << FRAME_FAIL_download_size_too_large >>
  /\ fastboot.download_size > 0
  /\ fastboot.status = FASTBOOT_STATUS_NORMAL

\* C7: when the interpreter runs on a `download:` line with a byte that is no
\* hex digit in the eight bytes after the colon, or shorter than 17 bytes, the
\* frame is `FAILfailed to parse size` and download_head and download_size
\* keep their values, whatever earlier lines left in rx_buffer.
C7_FailedToParse ==
  [][ (GateOpen /\ BadSizeWindow(LineAtGate)) =>
        /\ CStr(fastboot'.tx_buffer, 0) = FRAME_FAIL_failed_to_parse_size
        /\ obs'.resp = << FRAME_FAIL_failed_to_parse_size >>
        /\ fastboot'.download_head = fastboot.download_head
        /\ fastboot'.download_size = fastboot.download_size ]_vars

\* A short `download:` line was refused although an earlier line had left hex
\* digits in the rest of the window.
C7_Witness ==
  /\ pc = "tx"
  /\ obs.interp
  /\ StartsWithDownload(obs.line)
  /\ Len(obs.line) = 11
  /\ \A i \in 13..17 : fastboot.rx_buffer[i] \in HexCodes
  /\ obs.resp = << FRAME_FAIL_failed_to_parse_size >>

\* C8: download_head <= download_size <= capacity always, and download_head
\* changes only to 0 in a step of the interpreter or by download_amount in an
\* RX step that began in DOWNLOAD.
C8_DownloadBounds ==
  /\ [](/\ fastboot.download_head <= fastboot.download_size
        /\ fastboot.download_size <= Capacity)
  /\ [][ fastboot'.download_head # fastboot.download_head =>
           \/ /\ pc = "rx" /\ obs'.interp
              /\ fastboot'.download_head = 0
           \/ /\ pc = "rx" /\ fastboot.rx_state = "DOWNLOAD"
              /\ fastboot'.download_head =
                   fastboot.download_head + fastboot'.download_amount ]_vars

\* A download of several chunks is under way.
C8_Witness ==
  /\ fastboot.rx_state = "DOWNLOAD"
  /\ fastboot.download_head > 0
  /\ fastboot.download_head < fastboot.download_size
  /\ fastboot.download_size = Capacity

\* C9: while a download is in progress tight_turnaround is set, and the
\* maintenance and the display refresh are skipped.
C9_TightTurnaround ==
  (Live /\ fastboot.rx_state = "DOWNLOAD"
        /\ fastboot.download_head < fastboot.download_size) =>
    fastboot.tight_turnaround

\* C10: when the function has returned, usbd_end was called exactly once, and
\* reload_nyx at most once, after it, and only with the status
\* REBOOT_BOOTLOADER; before the exit path neither is called.
C10_TeardownOnce ==
  /\ pc = "returned" =>
       \/ obs.calls = << "usbd_end" >>
       \/ /\ obs.calls = << "usbd_end", "reload_nyx" >>
          /\ fastboot.status = FASTBOOT_STATUS_REBOOT_BOOTLOADER
  /\ pc # "returned" => obs.calls = << >>

C10_Witness ==
  /\ pc = "returned"
  /\ obs.calls = << "usbd_end", "reload_nyx" >>

\* C11: a pending control transfer or a suspension observed at the head of a
\* tick raises the status above NORMAL, and the loop exits only after the RX
\* and the TX step of that tick (a transfer pending at the check before the
\* loop ends the run before any tick).
C11_ResetOrSuspendRaisesStatus ==
  /\ obs.reset => fastboot.status # FASTBOOT_STATUS_NORMAL
  /\ (obs.reset /\ obs.pre_rx # "INVALID" /\ pc \in { "exit", "returned" }) =>
       obs.rx_steps = 1 /\ obs.tx_steps = 1
  /\ obs.suspended =>
       /\ fastboot.status # FASTBOOT_STATUS_NORMAL
       /\ obs.rx_steps = 1 /\ obs.tx_steps = 1

\* More of the texts the claims name.
TEXT_getvar_colon == B(<< "g","e","t","v","a","r",":" >>)
TEXT_version      == B(<< "v","e","r","s","i","o","n" >>)
TEXT_product      == B(<< "p","r","o","d","u","c","t" >>)
TEXT_max_download_size ==
  B(<< "m","a","x","-","d","o","w","n","l","o","a","d","-","s","i","z","e" >>)
TEXT_reboot_bootloader ==
  B(<< "r","e","b","o","o","t","-","b","o","o","t","l","o","a","d","e","r" >>)
TEXT_FAIL         == B(<< "F","A","I","L" >>)
FRAME_OKAY_0_4    == B(<< "O","K","A","Y","0",".","4" >>)
FRAME_OKAY_Nyx    == B(<< "O","K","A","Y","N","y","x" >>)
FRAME_OKAY_08000000 == B(<< "O","K","A","Y","0","8","0","0","0","0","0","0" >>)
FRAME_FAIL_unknown_variable ==
  B(<< "F","A","I","L","u","n","k","n","o","w","n"," ","v","a","r","i","a","b","l","e" >>)
FRAME_FAIL_unknown_command ==
  B(<< "F","A","I","L","u","n","k","n","o","w","n"," ","c","o","m","m","a","n","d",":"," " >>)

IsGetvar(l) == Len(l) >= 7 /\ SubSeq(l, 1, 7) = TEXT_getvar_colon

\* The variable a `getvar:` line names.
Variable(l) == SubSeq(l, 8, Len(l))

\* A line that is none of the commands.
UnknownCommand(l) ==
  /\ ~IsGetvar(l)
  /\ ~StartsWithDownload(l)
  /\ l # TEXT_reboot_bootloader

\* Malformed input: a bad or oversized download size, a variable or a command
\* that is not known.
Malformed(l) ==
  \/ BadSizeWindow(l)
  \/ AnnouncesTooLarge(l)
  \/ /\ IsGetvar(l)
     /\ Variable(l) \notin { TEXT_version, TEXT_product, TEXT_max_download_size }
  \/ UnknownCommand(l)

\* The interpreter has just run, on the line obs.line.
Interpreted == pc \in { "tx", "undefined" } /\ obs.interp

\* The arming calls of the RX step were a command read, then one write.
ArmedCommandThenWrite ==
  /\ Len(obs.ops) = 2
  /\ obs.ops[1].op = "read" /\ obs.ops[1].kind = "cmd"
  /\ obs.ops[2].op = "write"

\* C12: malformed input is answered with one `FAIL` frame with disposition
\* NORMAL by a run of the interpreter whose behaviour is defined: rx_state is
\* COMMAND, and with the arming calls accepted the status is still NORMAL and a
\* command read is armed for the next line.
C12_MalformedIsNoError ==
  (Interpreted /\ Malformed(obs.line)) =>
    /\ ~obs.ub
    /\ Len(obs.resp) = 1
    /\ SubSeq(obs.resp[1], 1, 4) = TEXT_FAIL
    /\ ArmedCommandThenWrite
    /\ fastboot.rx_state = "COMMAND"
    /\ ArmsAccepted(obs) =>
         /\ fastboot.status = FASTBOOT_STATUS_NORMAL
         /\ usb.rd.kind = "cmd" /\ usb.rd.stat = "active"

\* The frame that answers a `getvar:` line.
GetvarFrame(l) ==
  IF Variable(l) = TEXT_version THEN FRAME_OKAY_0_4
  ELSE IF Variable(l) = TEXT_product THEN FRAME_OKAY_Nyx
  ELSE IF Variable(l) = TEXT_max_download_size
    THEN FRAME_OKAY \o HexText(Capacity, 8, Uppers)
  ELSE FRAME_FAIL_unknown_variable

\* C13: a `getvar:` line is answered with `OKAY0.4` for version, `OKAYNyx` for
\* product, `OKAY` and the eight uppercase hex digits of the capacity for
\* max-download-size (`OKAY08000000` for the capacity 0x08000000) and
\* `FAILunknown variable` for anything else, each with disposition NORMAL.
C13_Getvar ==
  /\ FRAME_OKAY \o s_printf_08X(134217728) = FRAME_OKAY_08000000
  /\ (Interpreted /\ IsGetvar(obs.line)) =>
       /\ obs.resp = << GetvarFrame(obs.line) >>
       /\ CStr(fastboot.tx_buffer, 0) = GetvarFrame(obs.line)
       /\ ArmedCommandThenWrite
       /\ fastboot.rx_state = "COMMAND"

C13_Witness ==
  /\ Interpreted
  /\ obs.line = TEXT_getvar_colon \o TEXT_max_download_size
  /\ obs.resp = << FRAME_OKAY \o HexText(Capacity, 8, Uppers) >>
  /\ fastboot.rx_buffer[7 + 17 + 1] = 0
  /\ fastboot.rx_buffer[7 + 17 + 2] # 0

\* C14: an unknown command line of L bytes is answered by a run whose behaviour
\* is defined with `FAILunknown command: ` and the first min(L, 43) bytes of the
\* line: a message of at most 60 bytes, a frame of at most 64, with its NUL
\* inside tx_buffer.
C14_UnknownCommand ==
  (Interpreted /\ UnknownCommand(obs.line)) =>
    LET kept  == SubSeq(obs.line, 1, IF Len(obs.line) < 43 THEN Len(obs.line) ELSE 43)
        frame == FRAME_FAIL_unknown_command \o kept
    IN  /\ ~obs.ub
        /\ obs.resp = << frame >>
        /\ Len(frame) <= 64
        /\ CStr(fastboot.tx_buffer, 0) = frame
        /\ fastboot.tx_buffer[Len(frame) + 1] = 0

\* C15: the function returns 1 exactly when usb_device_init or
\* usb_device_ep0_initialize failed, and 0 on every exit after they succeeded,
\* whatever the status.
C15_ReturnValue ==
  pc = "returned" =>
    /\ res \in { 0, 1 }
    /\ res = 1 <=> ~obs.init_ok
    /\ obs.init_ok => fastboot.status \in fastboot_status

\* The run ended on a transport error after the loop had started, and
\* returned 0.
C15_Witness ==
  /\ pc = "returned"
  /\ obs.init_ok
  /\ fastboot.status = FASTBOOT_STATUS_USB_ERROR
  /\ res = 0

\* The number of writes among the arming calls of the RX step.
RECURSIVE Writes(_)
Writes(ops) ==
  IF ops = << >> THEN 0
  ELSE (IF ops[1].op = "write" THEN 1 ELSE 0) + Writes(Tail(ops))

\* C16: a run of the interpreter (one whose behaviour is defined) arms exactly
\* one write, for every command line.
C16_OneWritePerResponse ==
  (Interpreted /\ ~obs.ub) =>
    /\ Writes(obs.ops) = 1
    /\ Len(obs.resp) = 1

\* C17: a write is armed, and so a response built, only while tx_state is
\* IDLE.
C17_ResponseOnlyWhenTxIdle ==
  \A i \in 1..Len(obs.ops) :
    obs.ops[i].op = "write" => obs.ops[i].tx_state = "IDLE"

\* C18: when the interpreter is about to run, every byte of rx_buffer from
\* index rx_length on is zero.
C18_ZeroBeyondLength ==
  GateOpen =>
    \A i \in (fastboot.rx_length + 1)..(FASTBOOT_COMMAND_BUFFER_SIZE + 1) :
      fastboot.rx_buffer[i] = 0

C20_DownloadReadRange ==
  \A i \in 1..Len(obs.ops) :
    (obs.ops[i].op = "read" /\ obs.ops[i].kind = "dl") =>
      LET head == fastboot.download_head
          size == fastboot.download_size
          left == size - head
      IN  /\ head < size
          /\ obs.ops[i].off = head
          /\ obs.ops[i].len = (IF left < MaxChunk THEN left ELSE MaxChunk)
          /\ obs.ops[i].len >= 1
          /\ obs.ops[i].off + obs.ops[i].len <= size
          /\ size <= Capacity

\* The last chunk of a download, shorter than the largest transfer, armed
\* behind the chunks before it.
C20_Witness ==
  \E i \in 1..Len(obs.ops) :
    /\ obs.ops[i].op = "read" /\ obs.ops[i].kind = "dl"
    /\ obs.ops[i].off > 0
    /\ obs.ops[i].len < MaxChunk
    /\ obs.ops[i].off + obs.ops[i].len = fastboot.download_size

\* C22: the RX dispatcher never runs with rx_state IDLE: after an RX step
\* rx_state is IDLE only with the status REBOOT_BOOTLOADER, which ends the
\* loop, and a run of the interpreter leaves COMMAND, DOWNLOAD or
\* WAITING_TX_FOR_REBOOT_BOOTLOADER.
C22_DispatcherNeverIdle ==
  /\ pc = "rx" => fastboot.rx_state # "IDLE"
  /\ fastboot.rx_state = "IDLE" =>
       /\ fastboot.status = FASTBOOT_STATUS_REBOOT_BOOTLOADER
       /\ obs.pre_rx = "WAITING_TX_FOR_REBOOT_BOOTLOADER"
  /\ (pc = "tx" /\ obs.interp) =>
       fastboot.rx_state \in { "COMMAND", "DOWNLOAD", "WAITING_TX_FOR_REBOOT_BOOTLOADER" }

\* The reboot gate has left RX idle with the status that ends the loop.
C22_Witness ==
  /\ pc = "tx"
  /\ fastboot.rx_state = "IDLE"
  /\ fastboot.status = FASTBOOT_STATUS_REBOOT_BOOTLOADER

\* C23: the status is never INVALID_STATE: whenever a dispatcher runs,
\* rx_state and tx_state are values its switch has a case for.
C23_NoInvalidState ==
  /\ fastboot.status # FASTBOOT_STATUS_INVALID_STATE
  /\ pc \in { "rx", "tx" } =>
       /\ fastboot.rx_state \in { "IDLE", "COMMAND", "DOWNLOAD", "WAITING_TX_FOR_PROCESS",
                                  "WAITING_TX_FOR_REBOOT_BOOTLOADER" }
       /\ fastboot.tx_state \in { "IDLE", "SEND_RESPONSE" }

\* The dispatchers have run through a download to the last tick of a reboot.
C23_Witness ==
  /\ pc = "tx"
  /\ fastboot.rx_state = "IDLE"
  /\ fastboot.tx_state = "IDLE"
  /\ fastboot.download_size = Capacity
  /\ fastboot.download_head = Capacity

\* The number of reads among the arming calls of the RX step.
RECURSIVE Reads(_)
Reads(ops) ==
  IF ops = << >> THEN 0
  ELSE (IF ops[1].op = "read" THEN 1 ELSE 0) + Reads(Tail(ops))

\* C24: a read is armed only when no read is outstanding, the one before it
\* having been polled to completion, and a step arms at most one.
C24_OneReadOutstanding ==
  /\ \A i \in 1..Len(obs.ops) :
       obs.ops[i].op = "read" => (obs.ops[i].rd_kind = "none" /\ ~obs.ops[i].rd_busy)
  /\ Reads(obs.ops) <= 1

\* The nested send_response of a finished download of several chunks has armed
\* the command read.
C24_Witness ==
  /\ obs.pre_rx = "DOWNLOAD"
  /\ fastboot.download_head = fastboot.download_size
  /\ fastboot.download_size > MaxChunk
  /\ Reads(obs.ops) = 1
  /\ obs.ops[1].op = "read" /\ obs.ops[1].kind = "cmd"
  /\ usb.rd.kind = "cmd" /\ usb.rd.stat = "active"

\* C25: building the message for an unknown command writes no index of
\* `message` above 60.
C25_MessageWritesInBounds ==
  (Interpreted /\ UnknownCommand(obs.line)) => obs.msg_top <= 60

\* A command line has been received and the interpreter has not run on it.
LineWaiting ==
  \/ usb.rd.kind = "cmd" /\ usb.rd.stat = "done"
  \/ fastboot.rx_state = "WAITING_TX_FOR_PROCESS"

RestartCalled == \E i \in 1..Len(obs.calls) : obs.calls[i] = "reload_nyx"

\* C21: under a fair transport a command line whose read completed is
\* eventually run by the interpreter, a response being sent eventually leaves
\* (tx_state IDLE again), neither gate holds forever, and `reboot-bootloader`
\* leads to reload_nyx.
C21_Progress ==
  /\ LineWaiting ~> (obs.interp /\ ~LineWaiting)
  /\ (fastboot.tx_state = "SEND_RESPONSE") ~> (fastboot.tx_state = "IDLE")
  /\ (usb.wr.stat = "active") ~> (usb.wr.stat = "idle")
  /\ (fastboot.rx_state = "WAITING_TX_FOR_PROCESS") ~> obs.interp
  /\ (fastboot.rx_state = "WAITING_TX_FOR_REBOOT_BOOTLOADER") ~>
       (fastboot.status = FASTBOOT_STATUS_REBOOT_BOOTLOADER)
  /\ (LineWaiting /\ CStr(fastboot.rx_buffer, 0) = TEXT_reboot_bootloader) ~>
       RestartCalled

\* A download of several chunks and then `reboot-bootloader` have run to the
\* restart.
C21_Witness ==
  /\ pc = "returned"
  /\ RestartCalled
  /\ fastboot.download_size = Capacity
  /\ fastboot.download_head = Capacity
  /\ obs.line = TEXT_reboot_bootloader

====
